---- MODULE Spec2Model ----
(***************************************************************************)
(* Model of scripts/make_icns.py: create_icns(iconset_dir, output_file),   *)
(* the icon container packer.  Bytes are integers 0..255, byte strings are *)
(* sequences of bytes.  A container reader (not part of the script) is     *)
(* modelled from the specification text for the round-trip property.       *)
(***************************************************************************)
EXTENDS Integers, Sequences, FiniteSets, TLC

(* ------------------------------ bounds --------------------------------- *)

\* at most this many files are present in the source directory
MaxFiles == 2

\* at most this many (tag, payload) pairs in a round-trip input list
MaxRTBlocks == 2

\* at most this many blocks in a container a reader stream is derived from
MaxRdBlocks == 2

(* --------------------------- byte strings ------------------------------ *)

\* struct.pack('>I', n): four bytes, most significant first
Pack32(n) ==
    << (n \div 16777216) % 256, (n \div 65536) % 256, (n \div 256) % 256, n % 256 >>

\* b'icns'
Magic == << 105, 99, 110, 115 >>

\* keys of the dict `types`, in insertion order
types_tag ==
    << << 105, 99, 112, 52 >>,   \* icp4
       << 105, 99, 112, 53 >>,   \* icp5
       << 105, 99, 112, 54 >>,   \* icp6
       << 105, 99, 48, 55 >>,    \* ic07
       << 105, 99, 48, 56 >>,    \* ic08
       << 105, 99, 48, 57 >>,    \* ic09
       << 105, 99, 49, 48 >>,    \* ic10
       << 105, 99, 49, 49 >>,    \* ic11
       << 105, 99, 49, 50 >>,    \* ic12
       << 105, 99, 49, 51 >>,    \* ic13
       << 105, 99, 49, 52 >> >>  \* ic14

\* values of the dict `types`, in insertion order
types_filename ==
    << "icon_16x16.png", "icon_32x32.png", "icon_64x64.png", "icon_128x128.png",
       "icon_256x256.png", "icon_512x512.png", "icon_1024x1024.png",
       "icon_16x16@2x.png", "icon_32x32@2x.png", "icon_128x128@2x.png",
       "icon_256x256@2x.png" >>

\* positions of the dict `types`: the for loop visits them in this order
types == 1 .. Len(types_tag)

(* ----------------------------- file system ----------------------------- *)

\* A file is a record: exists, data (its bytes), huge.  huge marks a file of
\* at least 2^32 - 8 bytes, whose bytes are not represented: len(data) + 8
\* does not fit the '>I' format and struct.pack raises before a block is built.
NoFile == [exists |-> FALSE, huge |-> FALSE, data |-> << >>]

File(bytes) == [exists |-> TRUE, huge |-> FALSE, data |-> bytes]

HugeFile == [exists |-> TRUE, huge |-> TRUE, data |-> << >>]

\* ten bytes of content
TenBytes == << 137, 80, 78, 71, 13, 10, 26, 10, 0, 1 >>

\* the contents a source file may have
Contents == { File(<< >>), File(<< 65 >>), File(TenBytes), HugeFile }

\* a name in the directory that is not in the table
OtherName == "notes.txt"

FileNames == { types_filename[k] : k \in types } \cup { OtherName }

\* the directories of at most MaxFiles files
Directories ==
    UNION { { [n \in FileNames |-> IF n \in S THEN c[n] ELSE NoFile] :
                c \in [S -> Contents] } :
            S \in { T \in SUBSET FileNames : Cardinality(T) <= MaxFiles } }

\* The source directory path names a directory that can be searched ("ok"),
\* nothing ("missing"), or a directory without search permission
\* ("unreadable"); in the last two cases os.path.exists is False for every
\* path under it, which the directory without files stands for.
DirStates == { "ok", "missing", "unreadable" }

NoDirectory == [n \in FileNames |-> NoFile]

\* a complete container left at the output path by an earlier run
PreviousOutput ==
    File(Magic \o Pack32(17) \o types_tag[3] \o Pack32(9) \o << 66 >>)

VARIABLES
    iconset_dir,   \* the source directory: file name -> file
    output_file,   \* the file at the output path
    output_before, \* the file at the output path when the run started
    pc,            \* position of the run in create_icns
    k,             \* position of the for loop in `types`
    data_blocks,   \* the list data_blocks
    warnings,      \* positions of the tags whose warning was printed
    written,       \* number of blocks written to the output so far
    exit_code,     \* process exit code, -1 while running
    raised,        \* what ended the run: "none" or the error
    dir_state,     \* the source directory path: "ok", "missing" or "unreadable"
    output_in_dir, \* the output path is the path of OtherName in the source directory
    dir_before,    \* the source directory when the run started
    rt_input,      \* round trip: the list of (tag, payload) pairs
    rt_stream,     \* round trip: the serialized bytes
    rt_result,     \* round trip: what the reader returned
    rt_pc,         \* round trip: position; reader: its state
    rd_consumed,   \* reader: number of bytes of the stream consumed
    rd_total_length \* reader: total_length read from the header

vars == << iconset_dir, output_file, output_before, pc, k, data_blocks, warnings,
           written, exit_code, raised, dir_state, output_in_dir, dir_before,
           rt_input, rt_stream, rt_result, rt_pc, rd_consumed, rd_total_length >>

\* what create_icns is given and never assigns
env_vars == << dir_state, output_in_dir, dir_before >>

rt_vars == << rt_input, rt_stream, rt_result, rt_pc, rd_consumed, rd_total_length >>

pack_vars == << iconset_dir, output_file, output_before, pc, k, data_blocks,
                warnings, written, exit_code, raised, dir_state, output_in_dir,
                dir_before >>

(* ------------------------------ create_icns ---------------------------- *)

\* os.path.exists(os.path.join(iconset_dir, name))
exists(name) == iconset_dir[name].exists

\* the path opened for the tag at position t: the table's file name, and
\* when it does not exist, the variant named for icp4 and icp5
path(t) ==
    IF ~exists(types_filename[t])
    THEN IF t = 1 THEN "icon_16x16.png"
         ELSE IF t = 2 THEN "icon_32x32.png"
         ELSE types_filename[t]
    ELSE types_filename[t]

\* the block with a size field that leaves out the 8 header bytes
Block_SizeWithoutHeader(tag, img_data) == tag \o Pack32(Len(img_data)) \o img_data

\* tag + struct.pack('>I', block_size) + img_data
Block(tag, img_data) == tag \o Pack32(Len(img_data) + 8) \o img_data

\* end of one loop iteration
NextTag ==
    /\ k' = k + 1
    /\ pc' = IF k = Len(types_tag) THEN "check" ELSE "loop"

\* the run ends by an uncaught exception or by sys.exit(1)
Fail(error) ==
    /\ pc' = "done"
    /\ exit_code' = 1
    /\ raised' = error

\* the loop body putting the new block at the front of the list
LoopFound_Prepend ==
    /\ pc = "loop"
    /\ exists(path(k))
    /\ ~iconset_dir[path(k)].huge
    /\ data_blocks' = << Block(types_tag[k], iconset_dir[path(k)].data) >> \o data_blocks
    /\ NextTag
    /\ UNCHANGED << iconset_dir, output_file, output_before, warnings, written,
                    exit_code, raised >>
    /\ UNCHANGED rt_vars
    /\ UNCHANGED env_vars

\* loop body, the file exists and is read: a block is appended
LoopFound ==
    /\ pc = "loop"
    /\ exists(path(k))
    /\ ~iconset_dir[path(k)].huge
    /\ data_blocks' = Append(data_blocks, Block(types_tag[k], iconset_dir[path(k)].data))
    /\ NextTag
    /\ UNCHANGED << iconset_dir, output_file, output_before, warnings, written,
                    exit_code, raised >>
    /\ UNCHANGED rt_vars
    /\ UNCHANGED env_vars

\* loop body, the file exists but open() or read() raises OSError
LoopReadError ==
    /\ pc = "loop"
    /\ exists(path(k))
    /\ Fail("OSError")
    /\ UNCHANGED << iconset_dir, output_file, output_before, k, data_blocks,
                    warnings, written >>
    /\ UNCHANGED rt_vars
    /\ UNCHANGED env_vars

\* loop body, the file is read but block_size does not fit '>I'
LoopPackError ==
    /\ pc = "loop"
    /\ exists(path(k))
    /\ iconset_dir[path(k)].huge
    /\ Fail("struct.error")
    /\ UNCHANGED << iconset_dir, output_file, output_before, k, data_blocks,
                    warnings, written >>
    /\ UNCHANGED rt_vars
    /\ UNCHANGED env_vars

\* the loop body skipping a missing file without printing the warning
LoopMissing_NoWarning ==
    /\ pc = "loop"
    /\ ~exists(path(k))
    /\ NextTag
    /\ UNCHANGED << iconset_dir, output_file, output_before, data_blocks, warnings,
                    written, exit_code, raised >>
    /\ UNCHANGED rt_vars
    /\ UNCHANGED env_vars

\* loop body, the file does not exist: the warning is printed
LoopMissing ==
    /\ pc = "loop"
    /\ ~exists(path(k))
    /\ warnings' = Append(warnings, k)
    /\ NextTag
    /\ UNCHANGED << iconset_dir, output_file, output_before, data_blocks, written,
                    exit_code, raised >>
    /\ UNCHANGED rt_vars
    /\ UNCHANGED env_vars

\* sum(len(b) for b in data_blocks)
RECURSIVE SumLen(_)
SumLen(blocks) ==
    IF blocks = << >> THEN 0 ELSE Len(Head(blocks)) + SumLen(Tail(blocks))

\* the total size that leaves out the 8 header bytes
total_size_without_header == SumLen(data_blocks)

\* total_size = sum(len(b) for b in data_blocks) + 8
total_size == SumLen(data_blocks) + 8

\* the header with the size packed least significant byte first ('<I')
Header_LittleEndian(size) ==
    Magic \o << Pack32(size)[4], Pack32(size)[3], Pack32(size)[2], Pack32(size)[1] >>

\* b'icns' + struct.pack('>I', total_size)
Header(size) == Magic \o Pack32(size)

\* the empty check placed after the output has been opened
NoIcons_AfterOpen ==
    /\ pc = "check"
    /\ data_blocks = << >>
    /\ output_file' = File(<< >>)
    /\ Fail("NoIcons")
    /\ UNCHANGED << iconset_dir, output_before, k, data_blocks, warnings, written >>
    /\ UNCHANGED rt_vars
    /\ UNCHANGED env_vars

\* `if not data_blocks`: the error is printed and sys.exit(1) ends the run
NoIcons ==
    /\ pc = "check"
    /\ data_blocks = << >>
    /\ Fail("NoIcons")
    /\ UNCHANGED << iconset_dir, output_file, output_before, k, data_blocks,
                    warnings, written >>
    /\ UNCHANGED rt_vars
    /\ UNCHANGED env_vars

\* the source directory once the file at the output path has become f: the
\* same directory, unless the output path lies in it
DirWithOutput(f) ==
    IF output_in_dir THEN [iconset_dir EXCEPT ![OtherName] = f] ELSE iconset_dir

\* open(output_file, 'wb'): the file is created or truncated
OpenOutput ==
    /\ pc = "check"
    /\ data_blocks # << >>
    /\ output_file' = File(<< >>)
    /\ iconset_dir' = DirWithOutput(output_file')
    /\ pc' = "header"
    /\ UNCHANGED << output_before, k, data_blocks, warnings, written,
                    exit_code, raised >>
    /\ UNCHANGED rt_vars
    /\ UNCHANGED env_vars

\* open(output_file, 'wb') raises OSError: nothing is created or truncated
OpenOutputError ==
    /\ pc = "check"
    /\ data_blocks # << >>
    /\ Fail("OSError")
    /\ UNCHANGED << iconset_dir, output_file, output_before, k, data_blocks,
                    warnings, written >>
    /\ UNCHANGED rt_vars
    /\ UNCHANGED env_vars

\* f.write(b'icns' + struct.pack('>I', total_size))
WriteHeader ==
    /\ pc = "header"
    /\ output_file' = File(output_file.data \o Header(total_size))
    /\ iconset_dir' = DirWithOutput(output_file')
    /\ pc' = "blocks"
    /\ written' = 0
    /\ UNCHANGED << output_before, k, data_blocks, warnings,
                    exit_code, raised >>
    /\ UNCHANGED rt_vars
    /\ UNCHANGED env_vars

\* f.write(block) for the next block of data_blocks
WriteBlock ==
    /\ pc = "blocks"
    /\ written < Len(data_blocks)
    /\ output_file' = File(output_file.data \o data_blocks[written + 1])
    /\ iconset_dir' = DirWithOutput(output_file')
    /\ written' = written + 1
    /\ UNCHANGED << output_before, pc, k, data_blocks, warnings,
                    exit_code, raised >>
    /\ UNCHANGED rt_vars
    /\ UNCHANGED env_vars

\* a write raises (OSError; for the header also struct.error when total_size
\* does not fit '>I') or the process is killed: the run ends and the output
\* path keeps what was written so far
WriteError ==
    /\ \/ pc = "header"
       \/ pc = "blocks" /\ written < Len(data_blocks)
    /\ Fail("OSError")
    /\ UNCHANGED << iconset_dir, output_file, output_before, k, data_blocks,
                    warnings, written >>
    /\ UNCHANGED rt_vars
    /\ UNCHANGED env_vars

\* the with block is left, the success message is printed, the run returns
Success ==
    /\ pc = "blocks"
    /\ written = Len(data_blocks)
    /\ pc' = "done"
    /\ exit_code' = 0
    /\ UNCHANGED << iconset_dir, output_file, output_before, k, data_blocks,
                    warnings, written, raised >>
    /\ UNCHANGED rt_vars
    /\ UNCHANGED env_vars

\* the state when create_icns is entered
Init ==
    /\ dir_state \in DirStates
    /\ iconset_dir \in IF dir_state = "ok" THEN Directories ELSE { NoDirectory }
    /\ dir_before = iconset_dir
    /\ output_in_dir \in IF dir_state = "ok" THEN BOOLEAN ELSE { FALSE }
    /\ output_file \in IF output_in_dir THEN { iconset_dir[OtherName] }
                                        ELSE { NoFile, PreviousOutput }
    /\ output_before = output_file
    /\ pc = "loop"
    /\ k = 1
    /\ data_blocks = << >>
    /\ warnings = << >>
    /\ written = 0
    /\ exit_code = -1
    /\ raised = "none"
    /\ rt_input = << >>
    /\ rt_stream = << >>
    /\ rt_result = [error |-> "none", entries |-> << >>]
    /\ rt_pc = "off"
    /\ rd_consumed = 0
    /\ rd_total_length = 0

Next ==
    \/ LoopFound
    \/ LoopReadError
    \/ LoopPackError
    \/ LoopMissing
    \/ NoIcons
    \/ OpenOutput
    \/ OpenOutputError
    \/ WriteHeader
    \/ WriteBlock
    \/ WriteError
    \/ Success

Spec == Init /\ [][Next]_vars

(* ------------------------- reading byte strings ------------------------ *)

\* the unsigned integer held by four big-endian bytes
U32(b) == ((b[1] * 256 + b[2]) * 256 + b[3]) * 256 + b[4]

\* the concatenation of a list of byte strings
RECURSIVE Concat(_)
Concat(list) == IF list = << >> THEN << >> ELSE Head(list) \o Concat(Tail(list))

\* the parts of a block's bytes
TagOf(b) == SubSeq(b, 1, 4)
DeclaredLength(b) == U32(SubSeq(b, 5, 8))
PayloadOf(b) == SubSeq(b, 9, Len(b))

\* the sum of the declared lengths of a list of blocks
RECURSIVE SumDeclared(_)
SumDeclared(blocks) ==
    IF blocks = << >> THEN 0
    ELSE DeclaredLength(Head(blocks)) + SumDeclared(Tail(blocks))

\* the run of create_icns has returned normally
Succeeded == pc = "done" /\ exit_code = 0

\* the run of create_icns has ended by sys.exit(1) or an exception
Failed == pc = "done" /\ exit_code = 1

(* -------------------------------- claims ------------------------------- *)

\* C1: every block the packer emits is tag ++ length ++ payload, where the tag
\* is a tag of the table, the payload is the bytes of that tag's source file,
\* and the big-endian length field equals the payload's byte length plus 8.
C1_BlockInvariant ==
    \A n \in 1 .. Len(data_blocks) :
        LET b == data_blocks[n] IN
        /\ Len(b) >= 8
        /\ DeclaredLength(b) = Len(PayloadOf(b)) + 8
        /\ \E t \in types :
              /\ TagOf(b) = types_tag[t]
              /\ PayloadOf(b) = iconset_dir[types_filename[t]].data
              /\ b = types_tag[t] \o SubSeq(b, 5, 8) \o iconset_dir[types_filename[t]].data

\* a block of a ten-byte source file has been emitted
C1_Witness ==
    \E n \in 1 .. Len(data_blocks) :
        /\ PayloadOf(data_blocks[n]) = TenBytes
        /\ DeclaredLength(data_blocks[n]) = 18

\* C2: a written container is the magic, then the four-byte total_length, then
\* the blocks and nothing else, and total_length equals the sum of the blocks'
\* declared lengths plus 8.
C2_ContainerInvariant ==
    Succeeded =>
        LET f == output_file.data IN
        /\ output_file.exists
        /\ Len(f) >= 8
        /\ SubSeq(f, 1, 4) = Magic
        /\ U32(SubSeq(f, 5, 8)) = SumDeclared(data_blocks) + 8
        /\ SubSeq(f, 9, Len(f)) = Concat(data_blocks)

\* a container of two blocks has been written
C2_Witness == Succeeded /\ Len(data_blocks) = 2

\* C3 as stated: total_length in the header equals the byte length of the
\* output file minus 8.
C3_SizeMinus8 ==
    Succeeded => U32(SubSeq(output_file.data, 5, 8)) = Len(output_file.data) - 8

\* C3 amended: total_length in the header equals the byte length of the
\* output file (the 8 header bytes are counted in total_length).
C3_SizeInvariant ==
    Succeeded =>
        /\ Len(output_file.data) >= 8
        /\ U32(SubSeq(output_file.data, 5, 8)) = Len(output_file.data)

\* a container with a ten-byte payload has been written
C3_Witness == Succeeded /\ Len(output_file.data) >= 26

\* C4 as stated: when the output path held a previous output and the run
\* fails or is interrupted, the output path still holds that previous output.
C4_PreviousOutputKept ==
    (Failed /\ output_before.exists) => output_file = output_before

\* the table's file names present in the source directory
CatalogFilesPresent == { t \in types : iconset_dir[types_filename[t]].exists }

\* C5: when the directory holds none of the table's file names, the run ends
\* with the no-icons error and exit code 1, no block is built, and the output
\* path is never created or modified.
C5_ZeroEntries ==
    CatalogFilesPresent = {} =>
        /\ output_file = output_before
        /\ data_blocks = << >>
        /\ pc = "done" => (exit_code = 1 /\ raised = "NoIcons")
        /\ pc \in { "loop", "check", "done" }

\* a run on a directory without any of the table's files has ended, once with
\* an unrelated file in the directory
C5_Witness ==
    /\ CatalogFilesPresent = {}
    /\ iconset_dir[OtherName].exists
    /\ Failed
    /\ raised = "NoIcons"

\* the position in the table of a block's tag, 0 when the tag is not in it
TagPosition(b) ==
    IF \E t \in types : TagOf(b) = types_tag[t]
    THEN CHOOSE t \in types : TagOf(b) = types_tag[t]
    ELSE 0

\* C6: the blocks are in the order of the table: every block's tag is in the
\* table and the tags' table positions increase strictly along the list (so
\* no tag occurs twice); a produced container holds the blocks in that order.
C6_CatalogOrder ==
    /\ \A n \in 1 .. Len(data_blocks) : TagPosition(data_blocks[n]) \in types
    /\ \A m, n \in 1 .. Len(data_blocks) :
          m < n => TagPosition(data_blocks[m]) < TagPosition(data_blocks[n])
    /\ Succeeded => SubSeq(output_file.data, 9, Len(output_file.data)) = Concat(data_blocks)

\* a container whose two blocks are not neighbours in the table was produced
C6_Witness ==
    /\ Succeeded
    /\ Len(data_blocks) = 2
    /\ TagPosition(data_blocks[2]) > TagPosition(data_blocks[1]) + 1

\* C7 as stated: a zero-length file counts as not found: no block with an
\* empty payload is built or written, its tag is warned about, and a
\* directory whose only table file is an empty icon_32x32.png fails with the
\* no-icons error.
C7_EmptyFileNotFound ==
    /\ \A n \in 1 .. Len(data_blocks) : DeclaredLength(data_blocks[n]) > 8
    /\ (pc = "done" /\ CatalogFilesPresent = {2} /\ iconset_dir[types_filename[2]].data = << >>
          /\ ~iconset_dir[types_filename[2]].huge)
         => (exit_code = 1 /\ raised = "NoIcons" /\ output_file = output_before)

\* the fallback file names the specification declares per table position
declared_fallbacks(t) == IF t = 2 THEN << "icon_32x32@2x.png" >> ELSE << >>

\* C8 as stated: once the loop has visited a tag whose canonical file is
\* absent and whose first declared fallback exists and is not empty, the tag
\* has a block whose payload is the fallback file's bytes and no warning.
C8_FallbackSelected ==
    \A t \in types :
        (/\ k > t
         /\ raised = "none"
         /\ ~iconset_dir[types_filename[t]].exists
         /\ declared_fallbacks(t) # << >>
         /\ iconset_dir[declared_fallbacks(t)[1]].exists
         /\ ~iconset_dir[declared_fallbacks(t)[1]].huge
         /\ iconset_dir[declared_fallbacks(t)[1]].data # << >>)
        => /\ \E n \in 1 .. Len(data_blocks) :
                 /\ TagOf(data_blocks[n]) = types_tag[t]
                 /\ PayloadOf(data_blocks[n]) = iconset_dir[declared_fallbacks(t)[1]].data
           /\ \A n \in 1 .. Len(warnings) : warnings[n] # t

\* what C10 says of a successful run: one block per table file present, in
\* table order, none for the others, one warning per tag without a file, and
\* the 26-byte container of the ten-byte icon_16x16.png.
C10_Container ==
    Succeeded =>
        /\ Len(data_blocks) = Cardinality(CatalogFilesPresent)
        /\ \A t \in CatalogFilesPresent :
              \E n \in 1 .. Len(data_blocks) :
                  /\ TagOf(data_blocks[n]) = types_tag[t]
                  /\ PayloadOf(data_blocks[n]) = iconset_dir[types_filename[t]].data
        /\ \A n \in 1 .. Len(data_blocks) : TagPosition(data_blocks[n]) \in CatalogFilesPresent
        /\ Len(warnings) = Len(types_tag) - Cardinality(CatalogFilesPresent)
        /\ \A t \in types \ CatalogFilesPresent :
              Cardinality({ n \in 1 .. Len(warnings) : warnings[n] = t }) = 1
        /\ output_file.data = Header(SumDeclared(data_blocks) + 8) \o Concat(data_blocks)
        /\ (CatalogFilesPresent = {1} /\ iconset_dir[types_filename[1]].data = TenBytes)
              => /\ Len(output_file.data) = 26
                 /\ output_file.data =
                        Magic \o << 0, 0, 0, 26 >> \o types_tag[1] \o << 0, 0, 0, 18 >> \o TenBytes

ReadError(error) == [error |-> error, entries |-> << >>]

\* the tags of a list of entries
EntryTags(entries) == { entries[n].tag : n \in 1 .. Len(entries) }

\* Block state: from `consumed` bytes on, read blocks until total_length
RECURSIVE ReadBlocks(_, _, _, _)
ReadBlocks(stream, consumed, total_length, entries) ==
    IF consumed = total_length
    THEN IF Len(stream) # total_length
         THEN ReadError("SizeMismatch")
         ELSE [error |-> "none", entries |-> entries]
    ELSE IF consumed > total_length
    THEN ReadError("SizeMismatch")
    ELSE IF consumed + 8 > Len(stream)
    THEN ReadError("MalformedBlock")
    ELSE LET tag == SubSeq(stream, consumed + 1, consumed + 4)
             length == U32(SubSeq(stream, consumed + 5, consumed + 8))
         IN IF length < 8 \/ consumed + length > Len(stream)
            THEN ReadError("MalformedBlock")
            ELSE IF tag \in EntryTags(entries)
            THEN ReadError("DuplicateTag")
            ELSE ReadBlocks(stream, consumed + length, total_length,
                     Append(entries,
                         [tag |-> tag,
                          payload |-> SubSeq(stream, consumed + 9, consumed + length)]))

\* Header state, then the blocks
Read(stream) ==
    IF Len(stream) < 4 \/ SubSeq(stream, 1, 4) # Magic
    THEN ReadError("BadMagic")
    ELSE IF Len(stream) < 8
    THEN ReadError("Truncated")
    ELSE IF U32(SubSeq(stream, 5, 8)) > Len(stream)
    THEN ReadError("Truncated")
    ELSE ReadBlocks(stream, 8, U32(SubSeq(stream, 5, 8)), << >>)

(* ------------------------------ round trip ----------------------------- *)

\* the bytes create_icns writes for a list of blocks: the header, then the blocks
Container(blocks) == Header(SumLen(blocks) + 8) \o Concat(blocks)

\* payloads of the round-trip inputs
RTPayloads == { << 65 >>, << 0, 9 >>, TenBytes }

RTPairs == [tag : { types_tag[t] : t \in types }, payload : RTPayloads]

\* the non-empty lists of at most MaxRTBlocks pairs with unique tags
RTInputs ==
    UNION { { l \in [1 .. n -> RTPairs] :
                \A i, j \in 1 .. n : i # j => l[i].tag # l[j].tag } :
            n \in 1 .. MaxRTBlocks }

\* the list is serialized with the packer's layout
RTEncode ==
    /\ rt_pc = "encode"
    /\ rt_stream' = Container([n \in 1 .. Len(rt_input) |->
                                  Block(rt_input[n].tag, rt_input[n].payload)])
    /\ rt_pc' = "decode"
    /\ UNCHANGED << rt_input, rt_result, rd_consumed, rd_total_length >>
    /\ UNCHANGED pack_vars

\* the bytes are parsed by the reader
RTDecode ==
    /\ rt_pc = "decode"
    /\ rt_result' = Read(rt_stream)
    /\ rt_pc' = "done"
    /\ UNCHANGED << rt_input, rt_stream, rd_consumed, rd_total_length >>
    /\ UNCHANGED pack_vars

RTInit ==
    /\ rt_input \in RTInputs
    /\ rt_stream = << >>
    /\ rt_result = [error |-> "none", entries |-> << >>]
    /\ rt_pc = "encode"
    /\ rd_consumed = 0
    /\ rd_total_length = 0
    /\ dir_state = "ok"
    /\ output_in_dir = FALSE
    /\ dir_before = NoDirectory
    /\ iconset_dir = [n \in FileNames |-> NoFile]
    /\ output_file = NoFile
    /\ output_before = NoFile
    /\ pc = "off"
    /\ k = 1
    /\ data_blocks = << >>
    /\ warnings = << >>
    /\ written = 0
    /\ exit_code = -1
    /\ raised = "none"

RTNext == RTEncode \/ RTDecode

SpecRT == RTInit /\ [][RTNext]_vars

\* C9: serializing a non-empty list of (tag, payload) pairs with unique tags
\* and non-empty payloads and then parsing the bytes gives no reader error and
\* the same list of pairs in the same order.
C9_RoundTrip ==
    rt_pc = "done" =>
        /\ rt_result.error = "none"
        /\ rt_result.entries = rt_input

\* a list of two pairs, not in table order, has made the round trip
C9_Witness ==
    /\ rt_pc = "done"
    /\ Len(rt_input) = 2
    /\ rt_input[1].tag = types_tag[5]
    /\ rt_input[2].tag = types_tag[2]
    /\ rt_result.entries = rt_input

\* C11 as stated: when the source directory does not exist or cannot be
\* read, the run fails at once with the directory error and exit code 1: no
\* tag is looked up, no per-tag warning is printed, no output is written.
C11_DirectoryError ==
    dir_state # "ok" =>
        /\ k = 1
        /\ warnings = << >>
        /\ output_file = output_before
        /\ pc = "done" => (exit_code = 1 /\ raised = "DirectoryError")

(* --------------------- container reader, step by step ------------------ *)

\* the streams given to the reader: containers of at most MaxRdBlocks blocks,
\* tags possibly repeated, and what one corruption makes of them: a prefix,
\* one appended byte, or one byte replaced
RdPairs == [tag : { types_tag[1], types_tag[2] }, payload : { << 65 >>, << 0, 9 >> }]

RdLists == UNION { [1 .. n -> RdPairs] : n \in 0 .. MaxRdBlocks }

RdContainers ==
    { Container([n \in 1 .. Len(l) |-> Block(l[n].tag, l[n].payload)]) : l \in RdLists }

RdBytes == { 0, 7, 16, 105 }

RdCorruptions(c) ==
    { SubSeq(c, 1, n) : n \in 0 .. Len(c) }
      \cup { c \o << 0 >> }
      \cup { [c EXCEPT ![p] = v] : p \in 1 .. Len(c), v \in RdBytes }

RdStreams == UNION { RdCorruptions(c) : c \in RdContainers }

\* the reader stops with an error
RdFail(error) ==
    /\ rt_pc' = "Error"
    /\ rt_result' = ReadError(error)
    /\ UNCHANGED << rt_input, rt_stream, rd_consumed, rd_total_length >>
    /\ UNCHANGED pack_vars

RdMagicOk == Len(rt_stream) >= 4 /\ SubSeq(rt_stream, 1, 4) = Magic

\* the tag and the length of the block that starts after rd_consumed bytes
RdTag == SubSeq(rt_stream, rd_consumed + 1, rd_consumed + 4)
RdLength == U32(SubSeq(rt_stream, rd_consumed + 5, rd_consumed + 8))

\* the block header and the payload it announces are in the stream
RdBlockOk ==
    /\ rd_consumed + 8 <= Len(rt_stream)
    /\ RdLength >= 8
    /\ rd_consumed + RdLength <= Len(rt_stream)

\* Header state: the magic does not match
RdBadMagic ==
    /\ rt_pc = "Header"
    /\ ~RdMagicOk
    /\ RdFail("BadMagic")

\* Header state: total_length is missing or exceeds the stream length
RdTruncated ==
    /\ rt_pc = "Header"
    /\ RdMagicOk
    /\ IF Len(rt_stream) < 8 THEN TRUE
       ELSE U32(SubSeq(rt_stream, 5, 8)) > Len(rt_stream)
    /\ RdFail("Truncated")

\* Header state: magic and total_length are read
RdHeader ==
    /\ rt_pc = "Header"
    /\ RdMagicOk
    /\ Len(rt_stream) >= 8
    /\ U32(SubSeq(rt_stream, 5, 8)) <= Len(rt_stream)
    /\ rd_total_length' = U32(SubSeq(rt_stream, 5, 8))
    /\ rd_consumed' = 8
    /\ rt_pc' = "Block"
    /\ UNCHANGED << rt_input, rt_stream, rt_result >>
    /\ UNCHANGED pack_vars

\* Block state: the block's length is below 8 or its bytes are not all there
RdMalformedBlock ==
    /\ rt_pc = "Block"
    /\ rd_consumed < rd_total_length
    /\ ~RdBlockOk
    /\ RdFail("MalformedBlock")

\* Block state: the block's tag was already read
RdDuplicateTag ==
    /\ rt_pc = "Block"
    /\ rd_consumed < rd_total_length
    /\ RdBlockOk
    /\ RdTag \in EntryTags(rt_result.entries)
    /\ RdFail("DuplicateTag")

\* the Block state reaching EOF although bytes are left over or missing
RdEOF_IgnoreMismatch ==
    /\ rt_pc = "Block"
    /\ rd_consumed >= rd_total_length
    /\ rt_pc' = "EOF"
    /\ UNCHANGED << rt_input, rt_stream, rt_result, rd_consumed, rd_total_length >>
    /\ UNCHANGED pack_vars

\* Block state: one block is read and its payload kept under its tag
RdBlock ==
    /\ rt_pc = "Block"
    /\ rd_consumed < rd_total_length
    /\ RdBlockOk
    /\ RdTag \notin EntryTags(rt_result.entries)
    /\ rt_result' = [error |-> "none",
                     entries |-> Append(rt_result.entries,
                         [tag |-> RdTag,
                          payload |-> SubSeq(rt_stream, rd_consumed + 9,
                                             rd_consumed + RdLength)])]
    /\ rd_consumed' = rd_consumed + RdLength
    /\ UNCHANGED << rt_input, rt_stream, rt_pc, rd_total_length >>
    /\ UNCHANGED pack_vars

\* after the last block: bytes are left over or the blocks ran past total_length
RdSizeMismatch ==
    /\ rt_pc = "Block"
    /\ \/ rd_consumed > rd_total_length
       \/ rd_consumed = rd_total_length /\ Len(rt_stream) # rd_total_length
    /\ RdFail("SizeMismatch")

\* the consumed bytes equal total_length: EOF, success
RdEOF ==
    /\ rt_pc = "Block"
    /\ rd_consumed = rd_total_length
    /\ Len(rt_stream) = rd_total_length
    /\ rt_pc' = "EOF"
    /\ UNCHANGED << rt_input, rt_stream, rt_result, rd_consumed, rd_total_length >>
    /\ UNCHANGED pack_vars

RdInit ==
    /\ rt_stream \in RdStreams
    /\ rt_input = << >>
    /\ rt_result = [error |-> "none", entries |-> << >>]
    /\ rt_pc = "Header"
    /\ rd_consumed = 0
    /\ rd_total_length = 0
    /\ dir_state = "ok"
    /\ output_in_dir = FALSE
    /\ dir_before = NoDirectory
    /\ iconset_dir = NoDirectory
    /\ output_file = NoFile
    /\ output_before = NoFile
    /\ pc = "off"
    /\ k = 1
    /\ data_blocks = << >>
    /\ warnings = << >>
    /\ written = 0
    /\ exit_code = -1
    /\ raised = "none"

RdNext ==
    \/ RdBadMagic
    \/ RdTruncated
    \/ RdHeader
    \/ RdMalformedBlock
    \/ RdDuplicateTag
    \/ RdBlock
    \/ RdSizeMismatch
    \/ RdEOF

SpecRd == RdInit /\ [][RdNext]_vars

RdErrors == { "BadMagic", "Truncated", "MalformedBlock", "DuplicateTag", "SizeMismatch" }

\* the number of reader steps that can be taken in the current state
RdChoices ==
    Cardinality({ n \in 1 .. 8 :
        \/ n = 1 /\ ENABLED RdBadMagic
        \/ n = 2 /\ ENABLED RdTruncated
        \/ n = 3 /\ ENABLED RdHeader
        \/ n = 4 /\ ENABLED RdMalformedBlock
        \/ n = 5 /\ ENABLED RdDuplicateTag
        \/ n = 6 /\ ENABLED RdBlock
        \/ n = 7 /\ ENABLED RdSizeMismatch
        \/ n = 8 /\ ENABLED RdEOF })

\* C12: on any stream the reader goes Header -> Block* -> EOF or stops in
\* exactly one of the five errors: while it has not stopped exactly one step
\* can be taken, once stopped none; success (EOF) only if the magic matched,
\* total_length did not exceed the stream length, the blocks read have length
\* >= 8 with their payloads in the stream and distinct tags, and the bytes
\* consumed equal total_length; bytes left over, or blocks running past
\* total_length, give SizeMismatch; the outcome is the one Read computes.
C12_ReaderOutcome ==
    /\ rt_pc \in { "Header", "Block", "EOF", "Error" }
    /\ rt_pc \in { "Header", "Block" } => RdChoices = 1
    /\ rt_pc \in { "EOF", "Error" } => (RdChoices = 0 /\ rt_result = Read(rt_stream))
    /\ rt_pc = "Error" <=> rt_result.error \in RdErrors
    /\ rt_pc # "Error" => rt_result.error = "none"
    /\ rd_consumed <= Len(rt_stream)
    /\ rt_pc = "EOF" =>
          LET e == rt_result.entries IN
          /\ SubSeq(rt_stream, 1, 4) = Magic
          /\ rd_total_length = U32(SubSeq(rt_stream, 5, 8))
          /\ rd_total_length <= Len(rt_stream)
          /\ rd_consumed = rd_total_length
          /\ \A m, n \in 1 .. Len(e) : m # n => e[m].tag # e[n].tag
          /\ SubSeq(rt_stream, 1, rd_total_length) =
                Magic \o SubSeq(rt_stream, 5, 8)
                  \o Concat([n \in 1 .. Len(e) |->
                        e[n].tag \o Pack32(Len(e[n].payload) + 8) \o e[n].payload])
    /\ (rt_pc = "Block" /\ rd_consumed > rd_total_length) => ENABLED RdSizeMismatch
    /\ (rt_pc = "Block" /\ rd_consumed = rd_total_length /\ Len(rt_stream) > rd_total_length)
          => ENABLED RdSizeMismatch
    /\ (rt_pc = "Error" /\ rt_result.error = "SizeMismatch")
          => (rd_consumed # rd_total_length \/ Len(rt_stream) # rd_total_length)

\* the reader has reached EOF after two blocks
C12_Witness ==
    /\ rt_pc = "EOF"
    /\ Len(rt_result.entries) = 2
    /\ rd_consumed = Len(rt_stream)

\* the output file has been opened by this run
OutputOpened == pc \in { "header", "blocks" } \/ (pc = "done" /\ output_file # output_before)

\* C13, the ordering: the output is opened only after all tags have been
\* looked up (each gave a block or a warning) and at least one block was
\* built, so that until then, and after a failure of the resolve, read or
\* encode phase, the output path holds what it held before the run.
C13_OutputOpenedLast ==
    /\ OutputOpened =>
          /\ k = Len(types_tag) + 1
          /\ Len(data_blocks) + Len(warnings) = Len(types_tag)
          /\ data_blocks # << >>
    /\ pc \in { "loop", "check" } => output_file = output_before
    /\ (Failed /\ (raised \in { "NoIcons", "struct.error" } \/ k <= Len(types_tag)))
          => output_file = output_before

\* C13 as stated: the ordering, and the source directory is never written to.
C13_SourceDirNeverWritten ==
    /\ C13_OutputOpenedLast
    /\ iconset_dir = dir_before

\* C13 amended: the ordering, and the source directory is not written to
\* unless the output path lies in it: then the file at the output path is the
\* only one that changes.
C13_OnlyOutputPathWritten ==
    /\ C13_OutputOpenedLast
    /\ \A n \in FileNames :
          iconset_dir[n] # dir_before[n] =>
              /\ output_in_dir
              /\ n = OtherName
              /\ iconset_dir[n] = output_file
              /\ OutputOpened

\* a run over a previous output has failed on a file too long for a block,
\* after a block had been built
C13_Witness ==
    /\ Failed
    /\ raised = "struct.error"
    /\ data_blocks # << >>
    /\ output_before.exists
    /\ output_file = output_before

====
